---- MODULE Spec2Model ----
(***************************************************************************)
(* Model of src/main.rs (adreno_ioctl): the KGSL device locator, the       *)
(* property queries issued through ioctl(2), the chip id decoder and the   *)
(* orchestration in main.                                                  *)
(*                                                                         *)
(* A u32 is kept as two 16-bit words [hi, lo] (value = hi * 2^16 + lo), so *)
(* that the whole 32-bit range is representable and shifts and masks are   *)
(* computed on the words.  A buffer handed to the kernel is a sequence of  *)
(* bytes; #[repr(C)] fields are read from it little-endian at their        *)
(* offsets.                                                                *)
(***************************************************************************)
EXTENDS Integers, Sequences, FiniteSets, TLC

VARIABLES
    fs,            \* the filesystem: the set of paths that exist
    pc,            \* main's position
    devices,       \* main: `devices`, the result of find_kgsl_devices()
    opened,        \* paths File::open was called on, in call order
    file,          \* main: `file`, the open device, as an Option of its path
    outcome,       \* what main printed on its way out
    info_buf,      \* read_gpu_info: the bytes of `device_info`
    version_buf,   \* read_gpu_version: the bytes of `version_info`
    freq_buf,      \* try_read_gpu_frequency: the bytes of `freq_value`
    idx,           \* position of the running `for &ioctl_num in &possible_ioctls`
    reqs,          \* every ioctl issued so far: [code, type_, sizebytes]
    last,          \* the most recent ioctl: [result, wrote, nonzero]
    info,          \* main: Ok(info) of read_gpu_info, as an Option
    version_info,  \* main: `version_info`
    freq_info,     \* main: `freq_info`
    report,        \* what print_gpu_info printed, as an Option
    chip_in,       \* decoder harness: the chip id handed to decode_chip_id
    chip_out       \* decoder harness: the ChipInfo it returned, as an Option

vars == <<fs, pc, devices, opened, file, outcome, info_buf, version_buf, freq_buf,
          idx, reqs, last, info, version_info, freq_info, report,
          chip_in, chip_out>>

mainVars == <<fs, pc, devices, opened, file, outcome, info_buf, version_buf, freq_buf,
              idx, reqs, last, info, version_info, freq_info, report>>

-----------------------------------------------------------------------------
(* Bounds of the model *)

\* device ids the driver may write: 0..MaxWord
MaxWord == 1
\* version words the driver may write: 0..MaxVer
MaxVer == 1
\* frequency words the driver may write: 0..MaxFreq
MaxFreq == 1
\* decoder harness: major bytes 0..MaxMajor and 255
MaxMajor == 10
\* decoder harness: minor bytes 0..MaxMinor and 255
MaxMinor == 9
\* decoder harness: patch and revision bytes 0..MaxLow and 255
MaxLow == 1

-----------------------------------------------------------------------------
(* Option<T> and u32 *)

None == <<>>
Some(x) == <<x>>

U32(hi, lo) == [hi |-> hi, lo |-> lo]

Pow2(n) == 2 ^ n

\* x >> n on a u32, for 0 < n < 32
Shr(x, n) ==
    IF n >= 16
    THEN U32(0, x.hi \div Pow2(n - 16))
    ELSE U32(x.hi \div Pow2(n), (x.hi % Pow2(n)) * Pow2(16 - n) + x.lo \div Pow2(n))

\* (x & 0xFF) as u8
AndFF(x) == x.lo % 256

IsZero(x) == x.hi = 0 /\ x.lo = 0

\* the little-endian bytes of a u32 in memory
LeBytes(x) == <<x.lo % 256, x.lo \div 256, x.hi % 256, x.hi \div 256>>

\* the u32 field at byte offset off of a #[repr(C)] buffer
ReadU32(buf, off) ==
    U32(buf[off + 3] + 256 * buf[off + 4], buf[off + 1] + 256 * buf[off + 2])

Zeros(n) == [i \in 1..n |-> 0]

-----------------------------------------------------------------------------
(* Chip ID decoding *)

adreno_gen(major) ==
    CASE major = 1 -> "100"
      [] major = 2 -> "200"
      [] major = 3 -> "300"
      [] major = 4 -> "400"
      [] major = 5 -> "500"
      [] major = 6 -> "600"
      [] major = 7 -> "700"
      [] major = 8 -> "800"
      [] major = 9 -> "900"
      [] OTHER -> "Unknown"

model_name(major, minor) ==
    CASE <<major, minor>> = <<6, 0>> -> "Adreno 600"
      [] <<major, minor>> = <<6, 1>> -> "Adreno 610"
      [] <<major, minor>> = <<6, 2>> -> "Adreno 620"
      [] <<major, minor>> = <<6, 3>> -> "Adreno 630"
      [] <<major, minor>> = <<6, 4>> -> "Adreno 640"
      [] <<major, minor>> = <<6, 5>> -> "Adreno 650"
      [] <<major, minor>> = <<6, 6>> -> "Adreno 660"
      [] <<major, minor>> = <<6, 8>> -> "Adreno 680"
      [] <<major, minor>> = <<6, 9>> -> "Adreno 690"
      [] <<major, minor>> = <<7, 0>> -> "Adreno 700"
      [] <<major, minor>> = <<7, 1>> -> "Adreno 710"
      [] <<major, minor>> = <<7, 2>> -> "Adreno 720"
      [] <<major, minor>> = <<7, 3>> -> "Adreno 730"
      [] <<major, minor>> = <<7, 4>> -> "Adreno 740"
      [] <<major, minor>> = <<7, 5>> -> "Adreno 750"
      [] OTHER -> "Adreno GPU"

snapdragon_model(major, minor) ==
    CASE <<major, minor>> = <<6, 1>> -> Some("Snapdragon 665/680/685/690/6 Gen 1")
      [] <<major, minor>> = <<6, 2>> -> Some("Snapdragon 730/732G")
      [] <<major, minor>> = <<6, 3>> -> Some("Snapdragon 835/845")
      [] <<major, minor>> = <<6, 4>> -> Some("Snapdragon 855")
      [] <<major, minor>> = <<6, 5>> -> Some("Snapdragon 865/870")
      [] <<major, minor>> = <<6, 6>> -> Some("Snapdragon 888")
      [] <<major, minor>> = <<6, 8>> -> Some("Snapdragon 8 Gen 1")
      [] <<major, minor>> = <<6, 9>> -> Some("Snapdragon 7+ Gen 2")
      [] <<major, minor>> = <<7, 2>> -> Some("Snapdragon 7 Gen 1")
      [] <<major, minor>> = <<7, 3>> -> Some("Snapdragon 8+ Gen 1")
      [] <<major, minor>> = <<7, 5>> -> Some("Snapdragon 8 Gen 2")
      [] OTHER -> None

\* faulty variant of chip_major: the shift of the minor byte
chip_major_shift16(chip_id) == AndFF(Shr(chip_id, 16))

chip_major(chip_id) == AndFF(Shr(chip_id, 24))

chip_minor(chip_id) == AndFF(Shr(chip_id, 16))

chip_patch(chip_id) == AndFF(Shr(chip_id, 8))

chip_revision(chip_id) == AndFF(chip_id)

\* faulty variant of decode_chip_id: the model table keyed by (major, patch)
decode_chip_id_by_patch(chip_id) ==
    [raw_id |-> chip_id,
     major |-> chip_major(chip_id),
     minor |-> chip_minor(chip_id),
     patch |-> chip_patch(chip_id),
     revision |-> chip_revision(chip_id),
     model_name |-> model_name(chip_major(chip_id), chip_patch(chip_id)),
     adreno_generation |-> adreno_gen(chip_major(chip_id)),
     snapdragon_model |-> snapdragon_model(chip_major(chip_id), chip_minor(chip_id))]

decode_chip_id(chip_id) ==
    [raw_id |-> chip_id,
     major |-> chip_major(chip_id),
     minor |-> chip_minor(chip_id),
     patch |-> chip_patch(chip_id),
     revision |-> chip_revision(chip_id),
     model_name |-> model_name(chip_major(chip_id), chip_minor(chip_id)),
     adreno_generation |-> adreno_gen(chip_major(chip_id)),
     snapdragon_model |-> snapdragon_model(chip_major(chip_id), chip_minor(chip_id))]

-----------------------------------------------------------------------------
(* IOCTL definitions *)

KGSL_PROP_DEVICE_INFO == 1
KGSL_PROP_VERSION == 8
KGSL_PROP_PWRCTRL == 14

\* size_of::<KgslDeviceInfo>(), size_of::<KgslVersionInfo>(), size_of::<u32>()
SizeOfKgslDeviceInfo == 16
SizeOfKgslVersionInfo == 8
SizeOfU32 == 4

\* the request codes of the source, 0xc0140902 and so on, as u32 words
Ioctl_c0140902 == U32(49172, 2306)
Ioctl_c0080902 == U32(49160, 2306)
Ioctl_c00c0902 == U32(49164, 2306)
Ioctl_c0040902 == U32(49156, 2306)

\* the payload size and the direction a request code encodes (bits 16..29
\* and 30..31 of the code)
IocSize(code) == code.hi % 16384
IocDir(code) == code.hi \div 16384

\* faulty variant of info_ioctl: the code that declares the 16 bytes of the payload
info_ioctl_16 == U32(49168, 2306)

\* read_gpu_info: `ioctl_num`
info_ioctl == Ioctl_c0140902

\* read_gpu_version: `possible_ioctls`
version_ioctls == <<Ioctl_c0080902, Ioctl_c0140902, Ioctl_c00c0902>>

\* try_read_gpu_frequency: `possible_ioctls`
freq_ioctls == <<Ioctl_c0040902, Ioctl_c0080902, Ioctl_c0140902>>

\* faulty variant of KgslDeviceInfo: device_id and chip_id in the other order
KgslDeviceInfo_swapped(buf) ==
    [device_id |-> ReadU32(buf, 4),
     chip_id |-> ReadU32(buf, 0),
     mmu_enabled |-> ReadU32(buf, 8),
     gmem_gpubaseaddr |-> ReadU32(buf, 12)]

KgslDeviceInfo(buf) ==
    [device_id |-> ReadU32(buf, 0),
     chip_id |-> ReadU32(buf, 4),
     mmu_enabled |-> ReadU32(buf, 8),
     gmem_gpubaseaddr |-> ReadU32(buf, 12)]

KgslVersionInfo(buf) ==
    [driver_version |-> ReadU32(buf, 0),
     device_version |-> ReadU32(buf, 4)]

-----------------------------------------------------------------------------
(* The driver behind libc::ioctl.  A KGSL property request returns 0 on
   success and -1 (with errno) on failure; the driver may have written a
   payload through prop.value before returning, whatever it reports. *)

IoctlResults == {-1, 0}

SmallWords(n) == {LeBytes(U32(0, w)) : w \in 0..n}

Adreno610Id == U32(1537, 1)

\* device_id 0..MaxWord, chip_id 0 or the id of an Adreno 610, mmu_enabled
\* and gmem_gpubaseaddr 0 or 1
InfoPayloads ==
    {a \o b \o c \o d : a \in SmallWords(MaxWord),
                        b \in {LeBytes(U32(0, 0)), LeBytes(Adreno610Id)},
                        c \in SmallWords(1),
                        d \in SmallWords(1)}

VersionPayloads == {a \o b : a \in SmallWords(MaxVer), b \in SmallWords(MaxVer)}

FreqPayloads == SmallWords(MaxFreq)

\* the outcomes of one ioctl on a buffer holding buf
IoctlOutcomes(buf, payloads) ==
    {[result |-> r, wrote |-> FALSE, buf |-> buf] : r \in IoctlResults}
    \cup {[result |-> r, wrote |-> TRUE, buf |-> p] : r \in IoctlResults, p \in payloads}

\* what the model remembers of the most recent ioctl: its result, whether
\* the driver wrote, and whether the buffer holds a non-zero byte after it
Last(o) ==
    [result |-> o.result, wrote |-> o.wrote,
     nonzero |-> \E i \in 1..Len(o.buf) : o.buf[i] # 0]

Request(code, type_, sizebytes) ==
    [code |-> code, type_ |-> type_, sizebytes |-> sizebytes]

-----------------------------------------------------------------------------
(* The functions of the source *)

possible_paths ==
    <<"/dev/kgsl-3d0", "/dev/kgsl/kgsl-3d0", "/dev/kgsl-3d1", "/dev/kgsl-2d0",
      "/dev/kgsl-2d1">>

\* faulty variant of find_kgsl_devices: the filter left out
find_kgsl_devices_unfiltered(exists) == possible_paths

find_kgsl_devices(exists) == SelectSeq(possible_paths, LAMBDA path : path \in exists)

Ok(v) == [ok |-> TRUE, val |-> v]
Err(e) == [ok |-> FALSE, err |-> e]

\* faulty variant of read_gpu_info: the validation over all four fields
read_gpu_info_all_fields(result, buf) ==
    IF result < 0
    THEN Err("IOCTL failed")
    ELSE IF /\ IsZero(KgslDeviceInfo(buf).chip_id)
            /\ IsZero(KgslDeviceInfo(buf).device_id)
            /\ IsZero(KgslDeviceInfo(buf).mmu_enabled)
            /\ IsZero(KgslDeviceInfo(buf).gmem_gpubaseaddr)
         THEN Err("Keine gueltigen GPU-Daten empfangen")
         ELSE Ok(KgslDeviceInfo(buf))

\* read_gpu_info after its ioctl returned result and left buf in device_info
read_gpu_info(result, buf) ==
    IF result < 0
    THEN Err("IOCTL failed")
    ELSE IF IsZero(KgslDeviceInfo(buf).chip_id) /\ IsZero(KgslDeviceInfo(buf).device_id)
         THEN Err("Keine gueltigen GPU-Daten empfangen")
         ELSE Ok(KgslDeviceInfo(buf))

\* faulty variant of version_accepted: the result of the call not looked at
version_accepted_any_result(result, buf) ==
    ~IsZero(KgslVersionInfo(buf).driver_version)
    \/ ~IsZero(KgslVersionInfo(buf).device_version)

\* read_gpu_version: the test of one loop iteration
version_accepted(result, buf) ==
    result = 0 /\ (~IsZero(KgslVersionInfo(buf).driver_version)
                   \/ ~IsZero(KgslVersionInfo(buf).device_version))

\* try_read_gpu_frequency: the test of one loop iteration
freq_accepted(result, buf) ==
    result = 0 /\ ~IsZero(ReadU32(buf, 0))

\* freq_mhz / 1000000 on a u32: 1000000 = 64 * 15625
FreqMHz(x) == (x.hi * 1024 + x.lo \div 64) \div 15625

print_gpu_info(i, v, f) ==
    [model_name |-> decode_chip_id(i.chip_id).model_name,
     snapdragon_model |-> decode_chip_id(i.chip_id).snapdragon_model,
     chip_id |-> decode_chip_id(i.chip_id).raw_id,
     version |-> <<decode_chip_id(i.chip_id).major, decode_chip_id(i.chip_id).minor,
                   decode_chip_id(i.chip_id).patch, decode_chip_id(i.chip_id).revision>>,
     device_id |-> i.device_id,
     mmu |-> ~IsZero(i.mmu_enabled),
     gmem_base |-> i.gmem_gpubaseaddr,
     generation |-> decode_chip_id(i.chip_id).adreno_generation,
     frequency |-> IF f = None THEN None ELSE Some(FreqMHz(f[1])),
     driver |-> v,
     raw_bytes |-> LeBytes(i.device_id) \o LeBytes(i.chip_id)
                   \o LeBytes(i.mmu_enabled) \o LeBytes(i.gmem_gpubaseaddr)]

-----------------------------------------------------------------------------
(* main *)

Paths == {possible_paths[i] : i \in 1..Len(possible_paths)}

\* the filesystems main is run on: no device node, one, the second and the
\* fourth, or all five; SpecLocate runs the locator on every filesystem
MainFilesystems ==
    {e \in SUBSET Paths :
        \/ Cardinality(e) <= 1
        \/ e = {possible_paths[2], possible_paths[4]}
        \/ e = Paths}

NoLast == [result |-> 0, wrote |-> FALSE, nonzero |-> FALSE]

InitRest ==
    /\ pc = "locate"
    /\ devices = <<>>
    /\ opened = <<>>
    /\ file = None
    /\ outcome = "running"
    /\ info_buf = Zeros(SizeOfKgslDeviceInfo)
    /\ version_buf = Zeros(SizeOfKgslVersionInfo)
    /\ freq_buf = Zeros(SizeOfU32)
    /\ idx = 0
    /\ reqs = <<>>
    /\ last = NoLast
    /\ info = None
    /\ version_info = None
    /\ freq_info = None
    /\ report = None
    /\ chip_out = None

Init ==
    /\ fs \in MainFilesystems
    /\ chip_in = U32(0, 0)
    /\ InitRest

\* main, lines 313-317: find the devices, leave when there is none
Locate ==
    /\ pc = "locate"
    /\ devices' = find_kgsl_devices(fs)
    /\ IF devices' = <<>>
       THEN pc' = "done" /\ outcome' = "NoDeviceFound"
       ELSE pc' = "open" /\ outcome' = outcome
    /\ UNCHANGED <<fs, opened, file, info_buf, version_buf, freq_buf, idx, reqs, last,
                   info, version_info, freq_info, report, chip_in, chip_out>>

\* faulty variant of Open: main goes on after a failed open
Open_failure_ignored ==
    /\ pc = "open"
    /\ opened' = Append(opened, devices[1])
    /\ \E ok \in BOOLEAN :
          IF ok
          THEN pc' = "info" /\ outcome' = outcome /\ file' = Some(devices[1])
          ELSE pc' = "info" /\ outcome' = "OpenFailed" /\ file' = file
    /\ UNCHANGED <<fs, devices, info_buf, version_buf, freq_buf, idx, reqs, last,
                   info, version_info, freq_info, report, chip_in, chip_out>>

\* main, lines 326-336: open the first device, leave when that fails
Open ==
    /\ pc = "open"
    /\ opened' = Append(opened, devices[1])
    /\ \E ok \in BOOLEAN :
          IF ok
          THEN pc' = "info" /\ outcome' = outcome /\ file' = Some(devices[1])
          ELSE pc' = "done" /\ outcome' = "OpenFailed" /\ file' = file
    /\ UNCHANGED <<fs, devices, info_buf, version_buf, freq_buf, idx, reqs, last,
                   info, version_info, freq_info, report, chip_in, chip_out>>

\* faulty variant of ReadGpuInfo: main goes on to the version query after Err
ReadGpuInfo_error_ignored ==
    /\ pc = "info"
    /\ \E o \in IoctlOutcomes(Zeros(SizeOfKgslDeviceInfo), InfoPayloads) :
          /\ info_buf' = o.buf
          /\ last' = Last(o)
          /\ info' = Some(read_gpu_info(o.result, o.buf))
          /\ pc' = "version"
          /\ outcome' = outcome
    /\ reqs' = Append(reqs, Request(info_ioctl, KGSL_PROP_DEVICE_INFO,
                                    SizeOfKgslDeviceInfo))
    /\ idx' = 1
    /\ version_buf' = Zeros(SizeOfKgslVersionInfo)
    /\ UNCHANGED <<fs, devices, opened, file, freq_buf, version_info, freq_info, report,
                   chip_in, chip_out>>

\* main, lines 339 and 368-377: read_gpu_info(fd), with its one ioctl
ReadGpuInfo ==
    /\ pc = "info"
    /\ \E o \in IoctlOutcomes(Zeros(SizeOfKgslDeviceInfo), InfoPayloads) :
          /\ info_buf' = o.buf
          /\ last' = Last(o)
          /\ info' = Some(read_gpu_info(o.result, o.buf))
          /\ IF read_gpu_info(o.result, o.buf).ok
             THEN pc' = "version" /\ outcome' = outcome
             ELSE pc' = "done" /\ outcome' = "InfoFailed"
    /\ reqs' = Append(reqs, Request(info_ioctl, KGSL_PROP_DEVICE_INFO,
                                    SizeOfKgslDeviceInfo))
    /\ idx' = 1
    /\ version_buf' = Zeros(SizeOfKgslVersionInfo)
    /\ UNCHANGED <<fs, devices, opened, file, freq_buf, version_info, freq_info, report,
                   chip_in, chip_out>>

\* main, line 342: one iteration of the loop of read_gpu_version(fd); the
\* last one leaves the function with Err, turned into None by .ok().  The
\* local version_info is gone once the function has returned.
ReadGpuVersion ==
    /\ pc = "version"
    /\ \E o \in IoctlOutcomes(version_buf, VersionPayloads) :
          /\ last' = Last(o)
          /\ IF version_accepted(o.result, o.buf)
             THEN /\ version_info' = Some(KgslVersionInfo(o.buf))
                  /\ version_buf' = Zeros(SizeOfKgslVersionInfo)
                  /\ pc' = "freq"
                  /\ idx' = 1
             ELSE IF idx = Len(version_ioctls)
                  THEN /\ version_info' = None
                       /\ version_buf' = Zeros(SizeOfKgslVersionInfo)
                       /\ pc' = "freq"
                       /\ idx' = 1
                  ELSE /\ version_info' = version_info
                       /\ version_buf' = o.buf
                       /\ pc' = pc
                       /\ idx' = idx + 1
    /\ reqs' = Append(reqs, Request(version_ioctls[idx], KGSL_PROP_VERSION,
                                    SizeOfKgslVersionInfo))
    /\ freq_buf' = Zeros(SizeOfU32)
    /\ UNCHANGED <<fs, devices, opened, file, outcome, info_buf, info, freq_info, report,
                   chip_in, chip_out>>

\* main, lines 345-348: one iteration of the loop of try_read_gpu_frequency(fd);
\* the one that leaves the function goes on to print_gpu_info
TryReadGpuFrequency ==
    /\ pc = "freq"
    /\ \E o \in IoctlOutcomes(freq_buf, FreqPayloads) :
          /\ last' = Last(o)
          /\ IF freq_accepted(o.result, o.buf)
             THEN /\ freq_info' = Some(ReadU32(o.buf, 0))
                  /\ freq_buf' = Zeros(SizeOfU32)
                  /\ pc' = "done"
                  /\ idx' = 0
             ELSE IF idx = Len(freq_ioctls)
                  THEN /\ freq_info' = None
                       /\ freq_buf' = Zeros(SizeOfU32)
                       /\ pc' = "done"
                       /\ idx' = 0
                  ELSE /\ freq_info' = freq_info
                       /\ freq_buf' = o.buf
                       /\ pc' = pc
                       /\ idx' = idx + 1
    /\ reqs' = Append(reqs, Request(freq_ioctls[idx], KGSL_PROP_PWRCTRL, SizeOfU32))
    /\ IF pc' = "done"
       THEN /\ report' = Some(print_gpu_info(info[1].val, version_info, freq_info'))
            /\ outcome' = "Reported"
       ELSE /\ report' = report
            /\ outcome' = outcome
    /\ UNCHANGED <<fs, devices, opened, file, info_buf, version_buf, info, version_info,
                   chip_in, chip_out>>

Next ==
    \/ Locate
    \/ Open
    \/ ReadGpuInfo
    \/ ReadGpuVersion
    \/ TryReadGpuFrequency

Spec == Init /\ [][Next]_vars

-----------------------------------------------------------------------------
(* The locator and the open on every filesystem *)

InitLocate ==
    /\ fs \in SUBSET Paths
    /\ chip_in = U32(0, 0)
    /\ InitRest

NextLocate ==
    \/ Locate
    \/ Open

SpecLocate == InitLocate /\ [][NextLocate]_vars

-----------------------------------------------------------------------------
(* The decoder on its own *)

MajorBytes == 0..MaxMajor \cup {255}
MinorBytes == 0..MaxMinor \cup {255}
LowBytes == 0..MaxLow \cup {255}

RawIds ==
    {U32(ma * 256 + mi, pa * 256 + re) :
        ma \in MajorBytes, mi \in MinorBytes, pa \in LowBytes, re \in LowBytes}

InitDecode ==
    /\ fs = {}
    /\ chip_in \in RawIds
    /\ InitRest

Decode ==
    /\ chip_out = None
    /\ chip_out' = Some(decode_chip_id(chip_in))
    /\ UNCHANGED <<mainVars, chip_in>>

NextDecode == Decode

SpecDecode == InitDecode /\ [][NextDecode]_vars

-----------------------------------------------------------------------------
(* Properties of the decoder, checked under SpecDecode *)

\* C4: for every raw id, decode_chip_id returns a result that keeps raw_id
\* and whose major, minor, patch and revision are the four bytes of raw_id
\* from the most significant to the least, so that
\* major*2^24 + minor*2^16 + patch*2^8 + revision = raw_id.
C4_ByteDecomposition ==
    /\ chip_out = None => ENABLED Decode
    /\ chip_out # None =>
          /\ chip_out[1].raw_id = chip_in
          /\ {chip_out[1].major, chip_out[1].minor,
              chip_out[1].patch, chip_out[1].revision} \subseteq 0..255
          /\ chip_out[1].major * 256 + chip_out[1].minor = chip_in.hi
          /\ chip_out[1].patch * 256 + chip_out[1].revision = chip_in.lo

\* C4 witness: a raw id above 2^31 with four different bytes has been decoded
C4_Witness ==
    /\ chip_out # None
    /\ chip_in = U32(255 * 256 + 9, 256)
    /\ chip_out[1].major = 255

\* the (major, minor) pairs of the model table of the claim
C5_TablePairs ==
    {<<6, 0>>, <<6, 1>>, <<6, 2>>, <<6, 3>>, <<6, 4>>, <<6, 5>>, <<6, 6>>, <<6, 8>>,
     <<6, 9>>, <<7, 0>>, <<7, 1>>, <<7, 2>>, <<7, 3>>, <<7, 4>>, <<7, 5>>}

\* C5: the generation depends on major alone and is "Unknown" outside 1..9;
\* model_name and the platform family depend on (major, minor) alone; a pair
\* outside the table gets "Adreno GPU" and no platform family;
\* decode(0x00000000) and decode(0x06010001) are as the examples say.
C5_LookupKeys ==
    chip_out # None =>
       /\ \A r \in RawIds :
             r.hi \div 256 = chip_in.hi \div 256 =>
                decode_chip_id(r).adreno_generation = chip_out[1].adreno_generation
       /\ chip_in.hi \div 256 \notin 1..9 => chip_out[1].adreno_generation = "Unknown"
       /\ chip_in.hi \div 256 \in 1..9 => chip_out[1].adreno_generation # "Unknown"
       /\ \A r \in RawIds :
             r.hi = chip_in.hi =>
                /\ decode_chip_id(r).model_name = chip_out[1].model_name
                /\ decode_chip_id(r).snapdragon_model = chip_out[1].snapdragon_model
       /\ <<chip_in.hi \div 256, chip_in.hi % 256>> \notin C5_TablePairs =>
             /\ chip_out[1].model_name = "Adreno GPU"
             /\ chip_out[1].snapdragon_model = None
       /\ chip_in = U32(0, 0) =>
             /\ chip_out[1].adreno_generation = "Unknown"
             /\ chip_out[1].model_name = "Adreno GPU"
       /\ chip_in = U32(1537, 1) =>
             /\ chip_out[1].adreno_generation = "600"
             /\ chip_out[1].model_name = "Adreno 610"

\* C5 witness: 0x06010101, which differs from 0x06010001 in its patch only,
\* has been decoded
C5_Witness ==
    /\ chip_out # None
    /\ chip_in = U32(1537, 257)
    /\ chip_out[1].model_name = "Adreno 610"

-----------------------------------------------------------------------------
(* Properties of the locator, checked under SpecLocate *)

\* the position of a path in the candidate list
PathRank(path) == CHOOSE k \in 1..Len(possible_paths) : possible_paths[k] = path

\* C6: once the locator has run, `devices` holds the candidates that exist
\* and nothing else, each once, in the order of the candidate list; it is
\* empty when none exists; and no path has been opened by then.
C6_Locator ==
    /\ pc # "locate" =>
          /\ \A i \in 1..Len(devices) : devices[i] \in fs
          /\ \A path \in fs : Cardinality({i \in 1..Len(devices) : devices[i] = path}) = 1
          /\ \A i, j \in 1..Len(devices) :
                i < j => PathRank(devices[i]) < PathRank(devices[j])
          /\ fs = {} => devices = <<>>
    /\ pc = "open" => opened = <<>>
    /\ outcome = "NoDeviceFound" => opened = <<>>

\* C6 witness: three of the five candidates exist and have been located
C6_Witness ==
    /\ pc = "open"
    /\ fs = {possible_paths[2], possible_paths[4], possible_paths[5]}
    /\ devices = <<possible_paths[2], possible_paths[4], possible_paths[5]>>

-----------------------------------------------------------------------------
(* Properties of the queries and of main, checked under Spec *)

\* the state right after read_gpu_info returned: `last` is its ioctl
AfterInfoCall == info # None /\ Len(reqs) = 1

\* the state right after read_gpu_version returned: `last` is its last ioctl
AfterVersionCall == pc = "freq" /\ idx = 1

\* the state after try_read_gpu_frequency returned: `last` is its last ioctl
AfterFreqCall == pc = "done" /\ report # None

EmptyResponse == Err("Keine gueltigen GPU-Daten empfangen")

RequestFailed == Err("IOCTL failed")

\* the structure a 16-byte buffer holds, field by field
C1_Fields(buf) ==
    [device_id |-> U32(buf[3] + 256 * buf[4], buf[1] + 256 * buf[2]),
     chip_id |-> U32(buf[7] + 256 * buf[8], buf[5] + 256 * buf[6]),
     mmu_enabled |-> U32(buf[11] + 256 * buf[12], buf[9] + 256 * buf[10]),
     gmem_gpubaseaddr |-> U32(buf[15] + 256 * buf[16], buf[13] + 256 * buf[14])]

\* C1 as claimed: after a request that reported success, read_gpu_info
\* returns EmptyResponse exactly when all 16 bytes are zero, and the
\* structure, field for field, otherwise.
C1_AllBytesZero ==
    (AfterInfoCall /\ last.result = 0) =>
       /\ info[1] = EmptyResponse <=> info_buf = Zeros(SizeOfKgslDeviceInfo)
       /\ info_buf # Zeros(SizeOfKgslDeviceInfo) => info[1] = Ok(C1_Fields(info_buf))

\* C1 as amended: after a request that reported success, read_gpu_info
\* returns EmptyResponse exactly when the 8 bytes of device_id and chip_id
\* are zero, whatever mmu_enabled and gmem_gpubaseaddr hold, and the
\* structure, field for field, otherwise.
C1_IdBytesZero ==
    (AfterInfoCall /\ last.result = 0) =>
       /\ info[1] = EmptyResponse <=> (\A i \in 1..8 : info_buf[i] = 0)
       /\ (\E i \in 1..8 : info_buf[i] # 0) => info[1] = Ok(C1_Fields(info_buf))

\* C1 witness: the request succeeded and left mmu_enabled = 1 and both ids
\* zero, and read_gpu_info returned EmptyResponse
C1_Witness ==
    /\ AfterInfoCall
    /\ last.result = 0
    /\ info_buf = Zeros(8) \o <<1, 0, 0, 0>> \o Zeros(4)
    /\ info[1] = EmptyResponse

\* the requests issued for one property type, in order
ReqsOfType(t) == SelectSeq(reqs, LAMBDA r : r.type_ = t)

\* one candidate of a probing query was tried: exactly its request was
\* issued; it was skipped, the next one being due, when its call failed or
\* left an all-zero payload, and the query ended with None when it was the
\* last one; the query ended with a value, with no further candidate, when
\* its call succeeded with a non-zero payload
C2_Try(at, next, codes, type_, size, value) ==
    pc = at =>
       /\ reqs' = Append(reqs, Request(codes[idx], type_, size))
       /\ (last'.result # 0 \/ ~last'.nonzero) =>
             /\ value' = None
             /\ idx < Len(codes) => pc' = at /\ idx' = idx + 1
             /\ idx = Len(codes) => pc' = next
       /\ (last'.result = 0 /\ last'.nonzero) =>
             /\ value' # None
             /\ pc' = next

\* the requests of a probing query that has ended are the first n of its
\* candidates in order, all three when it ended with None
C2_Issued(codes, type_, size, value) ==
    \E n \in 1..Len(codes) :
       /\ ReqsOfType(type_) = [k \in 1..n |-> Request(codes[k], type_, size)]
       /\ value = None => n = Len(codes)

\* C2: read_gpu_version and try_read_gpu_frequency try their three request
\* codes in the configured order, one per step; a candidate whose call fails
\* or leaves an all-zero payload is skipped; the first candidate whose call
\* succeeds with a non-zero payload ends the query and no later candidate
\* is issued; None is returned only after all three were tried.
C2_ProbingOrder ==
    /\ [](/\ version_ioctls = <<Ioctl_c0080902, Ioctl_c0140902, Ioctl_c00c0902>>
          /\ freq_ioctls = <<Ioctl_c0040902, Ioctl_c0080902, Ioctl_c0140902>>
          /\ pc \in {"freq", "done"} /\ info # None /\ info[1].ok =>
                C2_Issued(version_ioctls, KGSL_PROP_VERSION,
                          SizeOfKgslVersionInfo, version_info)
          /\ AfterFreqCall =>
                C2_Issued(freq_ioctls, KGSL_PROP_PWRCTRL, SizeOfU32, freq_info))
    /\ [][/\ C2_Try("version", "freq", version_ioctls, KGSL_PROP_VERSION,
                    SizeOfKgslVersionInfo, version_info)
          /\ C2_Try("freq", "done", freq_ioctls, KGSL_PROP_PWRCTRL,
                    SizeOfU32, freq_info)]_vars

\* C2 witness: the first version candidate was skipped and the second one
\* accepted, so that the third was never issued
C2_Witness ==
    /\ AfterVersionCall
    /\ version_info # None
    /\ Len(ReqsOfType(KGSL_PROP_VERSION)) = 2

\* C3: when read_gpu_info fails, main ends with no further request and no
\* report; when it succeeds, main goes on whatever the version and the
\* frequency queries return and ends with the report of the device info,
\* a failed optional query being absent from it.
C3_Propagation ==
    /\ (info # None /\ ~info[1].ok) =>
          /\ pc = "done"
          /\ outcome = "InfoFailed"
          /\ report = None
          /\ Len(reqs) = 1
          /\ version_info = None /\ freq_info = None
    /\ (info # None /\ info[1].ok) =>
          \/ pc \in {"version", "freq"} /\ ENABLED Next
          \/ /\ pc = "done"
             /\ outcome = "Reported"
             /\ report # None
             /\ report[1].device_id = info[1].val.device_id
             /\ report[1].chip_id = info[1].val.chip_id
             /\ report[1].gmem_base = info[1].val.gmem_gpubaseaddr
             /\ report[1].driver = version_info
             /\ report[1].frequency = None <=> freq_info = None

\* C3 witness: both optional queries failed and the report was assembled
C3_Witness ==
    /\ pc = "done"
    /\ report # None
    /\ version_info = None
    /\ freq_info = None

\* the bytes 01 00 00 00 01 00 01 06 01 00 00 00 00 00 00 00
C7_Bytes == <<1, 0, 0, 0, 1, 0, 1, 6, 1, 0, 0, 0, 0, 0, 0, 0>>

\* C7: when the device-info request is accepted and leaves the bytes of
\* C7_Bytes, read_gpu_info succeeds and the run ends with a report of
\* device_id 1, chip_id 0x06010001, MMU enabled, GMEM base 0 and model
\* "Adreno 610", whatever the optional queries returned.
C7_EndToEnd ==
    /\ (AfterInfoCall /\ last.result = 0 /\ info_buf = C7_Bytes) =>
          info[1].ok /\ pc = "version"
    /\ (info # None /\ info[1].ok /\ info_buf = C7_Bytes /\ pc = "done") =>
          /\ report # None
          /\ report[1].device_id = U32(0, 1)
          /\ report[1].chip_id = U32(1537, 1)
          /\ report[1].mmu = TRUE
          /\ report[1].gmem_base = U32(0, 0)
          /\ report[1].model_name = "Adreno 610"

\* C7 witness: the run on those bytes ended with a report, the version
\* query having failed and the frequency query having succeeded
C7_Witness ==
    /\ pc = "done"
    /\ report # None
    /\ info_buf = C7_Bytes
    /\ version_info = None
    /\ freq_info # None

\* C8: read_gpu_info issues one request, the read/write code 0xc0140902 of
\* declared size 20, on a zeroed buffer; a negative result makes it return
\* RequestFailed, after which main issues no other request.
C8_SingleRequest ==
    /\ pc = "info" => reqs = <<>>
    /\ info # None =>
          /\ ReqsOfType(KGSL_PROP_DEVICE_INFO)
                = <<Request(U32(49172, 2306), KGSL_PROP_DEVICE_INFO, 16)>>
          /\ reqs[1].type_ = KGSL_PROP_DEVICE_INFO
          /\ IocSize(reqs[1].code) = 20
          /\ IocDir(reqs[1].code) = 3
    /\ (AfterInfoCall /\ ~last.wrote) => info_buf = Zeros(16)
    /\ (AfterInfoCall /\ last.result < 0) => info[1] = RequestFailed
    /\ (info # None /\ info[1] = RequestFailed) => pc = "done" /\ Len(reqs) = 1

\* C8 witness: the request failed after the driver had written into the buffer
C8_Witness ==
    /\ AfterInfoCall
    /\ last.result < 0
    /\ last.wrote
    /\ info[1] = RequestFailed

\* the place of a property type in the order of main's queries
QueryRank(t) ==
    CASE t = KGSL_PROP_DEVICE_INFO -> 1
      [] t = KGSL_PROP_VERSION -> 2
      [] t = KGSL_PROP_PWRCTRL -> 3

\* C9: requests are issued only once the locator returned a non-empty list
\* and its first path was opened, in the order device info, version,
\* frequency; with no device nothing is opened and nothing requested; when
\* the open fails nothing is requested and no other path is opened.
C9_Sequence ==
    /\ Len(opened) <= 1
    /\ opened # <<>> => devices # <<>> /\ opened = <<devices[1]>>
    /\ (reqs # <<>> \/ pc \in {"info", "version", "freq"}) =>
          /\ devices # <<>>
          /\ file = Some(devices[1])
          /\ outcome # "OpenFailed"
    /\ reqs # <<>> => reqs[1].type_ = KGSL_PROP_DEVICE_INFO
    /\ \A i, j \in 1..Len(reqs) :
          i < j => QueryRank(reqs[i].type_) <= QueryRank(reqs[j].type_)
    /\ outcome = "NoDeviceFound" =>
          devices = <<>> /\ opened = <<>> /\ reqs = <<>> /\ pc = "done"
    /\ devices = <<>> /\ pc # "locate" => outcome = "NoDeviceFound"
    /\ outcome = "OpenFailed" =>
          file = None /\ opened = <<devices[1]>> /\ reqs = <<>> /\ pc = "done"

\* C9 witness: two paths were located, the open of the first failed
C9_Witness ==
    /\ outcome = "OpenFailed"
    /\ Len(devices) = 2
    /\ opened = <<possible_paths[2]>>

\* C10: a probing query returns a value only when the accepted call itself
\* wrote the payload it returns.
C10_OwnData ==
    /\ (AfterVersionCall /\ version_info # None) => last.result = 0 /\ last.wrote
    /\ (AfterFreqCall /\ freq_info # None) => last.result = 0 /\ last.wrote

====
